---- MODULE Spec2Model ----
(***************************************************************************)
(* Process supervisor of ffmpeg-common (src/ffmpeg-common/src/process.rs)  *)
(* and its callers in the ffmpeg / ffplay / ffprobe builders.              *)
(*                                                                         *)
(* One external child process is modelled together with the Process handle *)
(* that supervises it, the two output pipes between them, the timer that   *)
(* Process::wait races against, and the consumer of stream handles that    *)
(* the caller took out of the Process.                                     *)
(***************************************************************************)
EXTENDS Integers, Sequences, FiniteSets, TLC

(* ------------------------------ bounds --------------------------------- *)
\* capacity of an OS pipe buffer, in bytes
PipeCap == 1
\* longest byte sequence the child writes to one stream
MaxLen == 2
\* largest configured timeout
MaxTimeout == 1
\* calls (accessors, kill, try_wait) the caller makes on one Process before
\* it waits for it or drops it
MaxCalls == 3
\* most lines on the stream that stream_progress reads
MaxLines == 2
\* most calls made on one CommandBuilder before build
MaxBuild == 2
\* most items in one argument list
MaxItems == 2
\* most builder calls made on one FFmpegBuilder before it is used
MaxSetup == 4
\* most show_* calls made on one FFprobeBuilder
MaxShow == 3
\* largest version component
MaxVer == 2

(* ------------------------------ values --------------------------------- *)
\* Option<T>: None is the empty tuple, Some(x) the one-element tuple
None == <<>>
Some(x) == <<x>>

Timeouts == 1..MaxTimeout
Streams == {"stdin", "stdout", "stderr"}
OutStreams == {"stdout", "stderr"}

\* what a child writes: n bytes to stdout, ASCII letters alternating with
\* 0xFF, which is never valid in UTF-8; on stderr the 0xFF comes first
StdoutBytes(n) == [i \in 1..n |-> IF i % 2 = 1 THEN 96 + i ELSE 255]
StderrBytes(n) == [i \in 1..n |-> IF i % 2 = 1 THEN 255 ELSE 64 + i]

\* std::process::ExitStatus: normal exit with a code, or death by signal
ExitCode(n) == <<"code", n>>
Killed == <<"signal", "SIGKILL">>

\* String::from_utf8_lossy: invalid bytes become U+FFFD
RECURSIVE from_utf8_lossy(_)
from_utf8_lossy(b) ==
    IF b = <<>> THEN <<>>
    ELSE <<(IF Head(b) < 128 THEN Head(b) ELSE 65533)>> \o from_utf8_lossy(Tail(b))

\* Result<ProcessOutput>, as one record shape
Pending == [kind |-> "pending", err |-> "", d |-> None,
            status |-> None, stdout |-> None, stderr |-> None]
OkOutput(st, out, er) == [kind |-> "Ok", err |-> "", d |-> None,
                          status |-> Some(st), stdout |-> out, stderr |-> er]
ErrIo == [kind |-> "Err", err |-> "Io", d |-> None,
          status |-> None, stdout |-> None, stderr |-> None]
\* variant: the error carries no usable duration
ErrTimeout_lost(t) == [kind |-> "Err", err |-> "Timeout", d |-> Some(0),
                       status |-> None, stdout |-> None, stderr |-> None]
ErrTimeout(t) == [kind |-> "Err", err |-> "Timeout", d |-> Some(t),
                  status |-> None, stdout |-> None, stderr |-> None]
ErrProcessFailed(st, text) == [kind |-> "Err", err |-> "ProcessFailed", d |-> None,
                               status |-> st, stdout |-> None, stderr |-> text]

(* ------------------------- text of progress lines ---------------------- *)
\* A string is a sequence of characters; the element "0xFF" stands for a byte
\* that is not valid UTF-8.  Numbers are exact: an f64 is a decimal mantissa
\* with a scale, or NaN (exponents and infinities are not written here); a
\* Duration is a number of milliseconds.
Digits == <<"0", "1", "2", "3", "4", "5", "6", "7", "8", "9">>
IsDigit(c) == \E d \in 1..10 : Digits[d] = c
DigitVal(c) == (CHOOSE d \in 1..10 : Digits[d] = c) - 1
AllDigits(s) == \A i \in 1..Len(s) : IsDigit(s[i])

RECURSIVE Num(_)
Num(ds) == IF ds = <<>> THEN 0
           ELSE Num(SubSeq(ds, 1, Len(ds) - 1)) * 10 + DigitVal(ds[Len(ds)])

RECURSIVE Pow10(_)
Pow10(n) == IF n = 0 THEN 1 ELSE 10 * Pow10(n - 1)

\* position of the first c in s, 0 when there is none
IndexOf(s, c) ==
    IF \E i \in 1..Len(s) : s[i] = c
    THEN CHOOSE i \in 1..Len(s) : s[i] = c /\ \A j \in 1..(i - 1) : s[j] # c
    ELSE 0

\* str::split(c)
RECURSIVE split(_, _)
split(s, c) ==
    LET i == IndexOf(s, c)
    IN IF i = 0 THEN <<s>>
       ELSE <<SubSeq(s, 1, i - 1)>> \o split(SubSeq(s, i + 1, Len(s)), c)

NonEmpty(t) == t # <<>>
\* str::split_whitespace
split_whitespace(s) == SelectSeq(split(s, " "), NonEmpty)

\* str::split_once(c)
split_once(s, c) ==
    LET i == IndexOf(s, c)
    IN IF i = 0 THEN None ELSE Some(<<SubSeq(s, 1, i - 1), SubSeq(s, i + 1, Len(s))>>)

\* str::contains(pat)
contains(s, pat) ==
    \E i \in 1..(Len(s) - Len(pat) + 1) : SubSeq(s, i, i + Len(pat) - 1) = pat

\* str::strip_suffix(suf)
strip_suffix(s, suf) ==
    IF Len(s) >= Len(suf) /\ SubSeq(s, Len(s) - Len(suf) + 1, Len(s)) = suf
    THEN Some(SubSeq(s, 1, Len(s) - Len(suf)))
    ELSE None

\* str::parse::<u64>: an optional '+' and at least one digit
parse_u64(s) ==
    LET body == IF s # <<>> /\ s[1] = "+" THEN Tail(s) ELSE s
    IN IF body # <<>> /\ AllDigits(body) THEN Some(Num(body)) ELSE None

NaN == <<"nan">>
RECURSIVE Float(_, _)
\* the f64 with mantissa m and s decimals, trailing zeros dropped
Float(m, s) == IF s > 0 /\ m % 10 = 0 THEN Float(m \div 10, s - 1) ELSE <<"f", m, s>>

\* str::parse::<f64>: an optional sign, then "nan" or digits with an
\* optional decimal point
parse_f64(s) ==
    LET neg == s # <<>> /\ s[1] = "-"
        body == IF s # <<>> /\ s[1] \in {"+", "-"} THEN Tail(s) ELSE s
        dot == IndexOf(body, ".")
        ip == IF dot = 0 THEN body ELSE SubSeq(body, 1, dot - 1)
        fp == IF dot = 0 THEN <<>> ELSE SubSeq(body, dot + 1, Len(body))
    IN IF body = <<"n", "a", "n">> THEN Some(NaN)
       ELSE IF AllDigits(ip) /\ AllDigits(fp) /\ Len(ip) + Len(fp) > 0
            THEN Some(Float((IF neg THEN -1 ELSE 1) * Num(ip \o fp), Len(fp)))
            ELSE None

\* f64 * k
FloatTimes(f, k) == IF f = NaN THEN NaN ELSE Float(f[2] * k, f[3])

\* std::time::Duration::from_secs_f64: panics on a negative or NaN value
from_secs_f64(f) ==
    IF f = NaN \/ f[2] < 0 THEN <<"Panic">>
    ELSE <<"Ok", (f[2] * 1000) \div Pow10(f[3])>>

\* Duration::from_ffmpeg_format: Ok with milliseconds, Err, or a panic
from_ffmpeg_format(s) ==
    LET secs == parse_f64(s)
        parts == split(s, ":")
        hours == parse_u64(parts[1])
        minutes == parse_u64(parts[2])
        sec_parts == split(parts[3], ".")
        seconds == parse_u64(sec_parts[1])
        millis == IF Len(sec_parts) > 1 THEN parse_u64(sec_parts[2]) ELSE Some(0)
    IN IF secs # None THEN from_secs_f64(secs[1])
       ELSE IF Len(parts) # 3 THEN <<"Err">>
       ELSE IF hours = None \/ minutes = None \/ seconds = None \/ millis = None
            THEN <<"Err">>
       ELSE <<"Ok", (hours[1] * 3600 + minutes[1] * 60 + seconds[1]) * 1000 + millis[1]>>

\* Progress with every field None
NoProgress == [frame |-> None, fps |-> None, q |-> None, size |-> None,
               time |-> None, bitrate |-> None, speed |-> None]

\* variant: a kB counted as 1000 bytes
kb_to_bytes_decimal(kb) == kb * 1000
\* |kb| kb * 1024
kb_to_bytes(kb) == kb * 1024
\* Option::map with the two closures of parse_line
MapOpt(o) == IF o = None THEN None ELSE Some(kb_to_bytes(o[1]))
MapOptF(o, k) == IF o = None THEN None ELSE Some(FloatTimes(o[1], k))

\* one `part` of the loop in parse_line, applied to the snapshot st
parse_part(st, part) ==
    LET kv == split_once(part, "=")
        key == kv[1][1]
        value == kv[1][2]
        p == st[2]
        kb == strip_suffix(value, <<"k", "B">>)
        kbits == strip_suffix(value, <<"k", "b", "i", "t", "s", "/", "s">>)
        sp == strip_suffix(value, <<"x">>)
        dur == from_ffmpeg_format(value)
    IN IF st[1] = "Panic" \/ kv = None THEN st
       ELSE CASE key = <<"f", "r", "a", "m", "e">> -> <<"Some", [p EXCEPT !.frame = parse_u64(value)]>>
              [] key = <<"f", "p", "s">> -> <<"Some", [p EXCEPT !.fps = parse_f64(value)]>>
              [] key = <<"q">> -> <<"Some", [p EXCEPT !.q = parse_f64(value)]>>
              [] key = <<"s", "i", "z", "e">> ->
                    IF kb = None THEN st
                    ELSE <<"Some", [p EXCEPT !.size = MapOpt(parse_u64(kb[1]))]>>
              [] key = <<"t", "i", "m", "e">> ->
                    IF dur[1] = "Panic" THEN <<"Panic">>
                    ELSE IF dur[1] = "Ok" THEN <<"Some", [p EXCEPT !.time = Some(dur[2])]>>
                    ELSE st
              [] key = <<"b", "i", "t", "r", "a", "t", "e">> ->
                    IF kbits = None THEN st
                    ELSE <<"Some", [p EXCEPT !.bitrate = MapOptF(parse_f64(kbits[1]), 1000)]>>
              [] key = <<"s", "p", "e", "e", "d">> ->
                    IF sp = None THEN st
                    ELSE <<"Some", [p EXCEPT !.speed = parse_f64(sp[1])]>>
              [] OTHER -> st

RECURSIVE parse_parts(_, _)
parse_parts(st, parts) ==
    IF parts = <<>> THEN st ELSE parse_parts(parse_part(st, Head(parts)), Tail(parts))

\* Progress::parse_line: <<"None">>, <<"Some", progress>>, or <<"Panic">> when
\* the duration conversion panics
parse_line(line) ==
    IF ~ contains(line, <<"f", "r", "a", "m", "e", "=">>) THEN <<"None">>
    ELSE parse_parts(<<"Some", NoProgress>>, split_whitespace(line))

(* --------------------------- progress lines ---------------------------- *)
\* the progress line of tests::test_progress_parsing, in ffmpeg's padded layout
TestLine == <<"f", "r", "a", "m", "e", "=", " ", " ", "1", "0", "0", " ", "f", "p", "s", "=", "2", "5", ".", "0", " ", "q", "=", "2", "8", ".", "0", " ", "s", "i", "z", "e", "=", " ", " ", " ", " ", "1", "0", "2", "4", "k", "B", " ", "t", "i", "m", "e", "=", "0", "0", ":", "0", "0", ":", "0", "4", ".", "0", "0", " ", "b", "i", "t", "r", "a", "t", "e", "=", "2", "0", "9", "7", ".", "2", "k", "b", "i", "t", "s", "/", "s", " ", "s", "p", "e", "e", "d", "=", "1", ".", "0", "0", "x">>
\* the same fields with no padding after the '='
CompactLine == <<"f", "r", "a", "m", "e", "=", "1", "0", "0", " ", "f", "p", "s", "=", "2", "5", ".", "0", " ", "q", "=", "2", "8", ".", "0", " ", "s", "i", "z", "e", "=", "1", "0", "2", "4", "k", "B", " ", "t", "i", "m", "e", "=", "0", "0", ":", "0", "0", ":", "0", "4", ".", "0", "0", " ", "b", "i", "t", "r", "a", "t", "e", "=", "2", "0", "9", "7", ".", "2", "k", "b", "i", "t", "s", "/", "s", " ", "s", "p", "e", "e", "d", "=", "1", ".", "0", "0", "x">>
BadFrameLine == <<"f", "r", "a", "m", "e", "=", "a", "b", "c", " ", "f", "p", "s", "=", "2", "5", ".", "0">>
BadTimeLine == <<"f", "r", "a", "m", "e", "=", "5", " ", "t", "i", "m", "e", "=", "N", "/", "A", " ", "d", "r", "o", "p", "=", "0", " ", "s", "p", "e", "e", "d", "=", "1", ".", "5", "x">>
NegTimeLine == <<"f", "r", "a", "m", "e", "=", "1", " ", "t", "i", "m", "e", "=", "-", "1">>
LogLine == <<"f", "p", "s", "=", "2", "5", ".", "0", " ", "q", "=", "2", "8", ".", "0">>
\* bytes that are not UTF-8 in the middle of a line
BinaryLine == <<"f", "r", "a", "m", "e", "=", "2", " ">> \o <<"0xFF">> \o <<" ", "f", "p", "s", "=", "1">>

\* u64 Display
RECURSIVE ToDigits(_)
ToDigits(n) == IF n < 10 THEN <<Digits[n + 1]>>
               ELSE ToDigits(n \div 10) \o <<Digits[(n % 10) + 1]>>

\* byte counts that are a whole number of kibibytes
ByteCounts == {0, 1024, 1048576}
\* a progress line that reports B bytes in the size key
SizeLine(B) == <<"f", "r", "a", "m", "e", "=", "1", " ", "s", "i", "z", "e", "=">> \o ToDigits(B \div 1024) \o <<"k", "B">>

Catalogue == {TestLine, CompactLine, BadFrameLine, BadTimeLine, NegTimeLine,
              LogLine, BinaryLine} \cup {SizeLine(B) : B \in ByteCounts}

\* String::from_utf8 succeeds on the line
valid_utf8(line) == \A i \in 1..Len(line) : line[i] # "0xFF"

(* ------------------------------ state ---------------------------------- *)
VARIABLES
    exe,        \* environment: "ok", "missing" or "noexec" executable file
    prog,       \* environment: what the child writes and its exit code
    pc,         \* position of the caller
    mode,       \* "direct" use of Process, or FFmpegBuilder::run
    cfg,        \* ProcessConfig
    callback,   \* FFmpegBuilder.progress_callback is Some
    setupErr,   \* error returned by find_executable or Process::spawn
    child,      \* the OS process: state, status, reaped by the handle
    todo,       \* bytes the child still has to write, per stream
    pipe,       \* bytes in flight in each pipe
    handle,     \* Child.stdin / stdout / stderr of the Process
    ncalls,     \* calls made on the Process so far
    calls,      \* accessor calls made, per stream
    holders,    \* handles handed out by the accessors, per stream
    got,        \* bytes read by the consumer of a taken handle
    wphase,     \* position inside Process::wait
    wout,       \* status and stdout collected so far by wait
    waitRead,   \* streams that wait has read
    timer,      \* the timeout future of wait
    result,     \* what Process::wait returned
    final,      \* what ProcessOutput::into_result returned
    tw,         \* what the last try_wait returned, and after how many kills
    kills,      \* kill calls: count after exit, last return value
    task,       \* what the caller uses: "process", "stream", "builder", "merge"
    lines,      \* stream_progress: the lines on the source stream
    pos,        \* lines consumed from the stream
    reader,     \* "reading", "returned" or "panicked"
    outcomes,   \* what happened to each consumed line
    sunk,       \* invocations of the callback: line number and snapshot
    cbArgs,     \* CommandBuilder.args
    cbLog,      \* the calls made on the CommandBuilder
    cbBuilt,    \* what CommandBuilder::build returned
    merge,      \* merge_args: base, overrides and the returned list
    fb,         \* FFmpegBuilder: inputs, outputs, overwrite, no_overwrite
    fbLog,      \* the overwrite / no_overwrite calls made on it
    fbRet,      \* what build_args, command, run or spawn did
    probe,      \* FFprobeBuilder: input and show_sections
    probeLog,   \* the show_* calls made on it
    probeRet,   \* what FFprobeBuilder::build_args returned
    ver,        \* Version::is_at_least: self, the queried triple, the answer
    dur         \* Duration: the value, its text, the parse result

vars == <<exe, prog, pc, mode, cfg, callback, setupErr, child, todo,
          pipe, handle, ncalls, calls, holders, got, wphase, wout, waitRead, timer,
          result, final, tw, kills, task, lines, pos, reader, outcomes, sunk,
          cbArgs, cbLog, cbBuilt, merge, fb, fbLog, fbRet, probe, probeLog,
          probeRet, ver, dur>>

textVars == <<lines, pos, reader, outcomes, sunk>>
cbVars == <<cbArgs, cbLog, cbBuilt>>
\* what no operation of Process touches
fbVars == <<fb, fbLog, fbRet>>
probeVars == <<probe, probeLog, probeRet>>
toolVars == <<fbVars, probeVars, ver, dur>>
envVars == <<exe, prog, task, textVars, cbVars, merge, toolVars>>
setupVars == <<mode, cfg, callback, setupErr>>
waitVars == <<wphase, wout, waitRead, timer, result, final>>
callVars == <<ncalls, calls, holders, tw, kills>>
processVars == <<exe, prog, pc, setupVars, child, todo, pipe, handle, got,
                 waitVars, callVars>>

\* no OS process yet; first is the status the process ended with
NoChild == [state |-> "none", status |-> None, first |-> None, reaped |-> FALSE]

NoConfig == [capture_stdout |-> FALSE, capture_stderr |-> FALSE,
             pipe_stdin |-> FALSE, timeout |-> None]

\* command-line items: a standalone flag, or a value-taking flag and its value
Items == {<<"-y">>, <<"-c", "copy">>, <<"-c", "libx264">>,
          <<"-preset", "fast">>, <<"-preset", "slow">>}
RECURSIVE Flatten(_)
Flatten(ss) == IF ss = <<>> THEN <<>> ELSE Head(ss) \o Flatten(Tail(ss))
\* argument lists of at most MaxItems items in which no flag is repeated
ArgLists ==
    {Flatten(ss) : ss \in {t \in UNION {[1..n -> Items] : n \in 0..MaxItems} :
                              \A i, j \in 1..Len(t) : i # j => t[i][1] # t[j][1]}}

\* the lines a child can write to the stream, at most MaxLines of them
LineSeqs == UNION {[1..n -> Catalogue] : n \in 0..MaxLines}

\* version triples
Versions == (0..MaxVer) \X (0..MaxVer) \X (0..MaxVer)

\* durations in milliseconds: whole seconds, fractions below and above
\* 100 ms, and 100 hours or more
Durations == {0, 5, 99, 500, 4005, 4500, 30500, 90000, 5400000,
              359999999, 360000000, 360000005}

FracOne == <<"0", "0", ":", "0", "0", ":", "0", "4", ".", "5">>
FracTwo == <<"0", "0", ":", "0", "0", ":", "0", "4", ".", "5", "0">>
FracThree == <<"0", "0", ":", "0", "0", ":", "0", "4", ".", "5", "0", "0">>
\* time texts: one instant with one, two and three fraction digits, and the
\* texts of tests::test_duration_parsing
TimeTexts == {FracOne, FracTwo, FracThree, <<"1", "0">>, <<"0", "1", ":", "3", "0", ":", "0", "0">>, <<"0", "0", ":", "0", "0", ":", "3", "0", ".", "5", "0", "0">>}

\* a Duration and nothing done with it yet
NoDuration == [d |-> None, text |-> <<>>, stage |-> "none", parsed |-> None]

\* FFmpegBuilder::new / with_executable
NewFFmpegBuilder == [inputs |-> <<>>, outputs |-> <<>>,
                     overwrite |-> FALSE, no_overwrite |-> FALSE]
\* FFprobeBuilder::new / with_executable
NewFFprobeBuilder == [input |-> None, show_sections |-> <<>>]

Tasks == {"process", "stream", "builder", "merge",
          "ffmpeg", "ffprobe", "version", "duration"}

\* the caller works with a Process, or with one of the helpers and no Process
Init ==
    /\ task \in Tasks
    /\ exe \in IF task = "process" THEN {"ok", "missing", "noexec"} ELSE {"ok"}
    /\ prog \in IF task = "process"
                THEN [out : {StdoutBytes(n) : n \in 0..MaxLen},
                      err : {StderrBytes(n) : n \in 0..MaxLen},
                      code : {0, 1}]
                ELSE {[out |-> <<>>, err |-> <<>>, code |-> 0]}
    /\ pc = IF task = "process" THEN "start" ELSE "idle"
    /\ lines \in IF task = "stream" THEN LineSeqs ELSE {<<>>}
    /\ pos = 0
    /\ reader = IF task = "stream" THEN "reading" ELSE "none"
    /\ outcomes = <<>>
    /\ sunk = <<>>
    /\ cbArgs = <<>>
    /\ cbLog = <<>>
    /\ cbBuilt = None
    /\ merge \in IF task = "merge"
                 THEN [base : ArgLists, overrides : ArgLists, result : {None}]
                 ELSE {[base |-> <<>>, overrides |-> <<>>, result |-> None]}
    /\ fb = NewFFmpegBuilder
    /\ fbLog = <<>>
    /\ fbRet = [op |-> "none", ret |-> None, spawned |-> FALSE]
    /\ probe = NewFFprobeBuilder
    /\ probeLog = <<>>
    /\ probeRet = None
    /\ ver \in IF task = "version"
               THEN [self : Versions, query : Versions, ret : {None}]
               ELSE {[self |-> <<0, 0, 0>>, query |-> <<0, 0, 0>>, ret |-> None]}
    /\ dur \in IF task = "duration"
               THEN {[NoDuration EXCEPT !.d = Some(x), !.stage = "value"] : x \in Durations}
                    \cup {[NoDuration EXCEPT !.text = t, !.stage = "text"] : t \in TimeTexts}
               ELSE {NoDuration}
    /\ mode = "direct"
    /\ cfg = NoConfig
    /\ callback = FALSE
    /\ setupErr = [op |-> "", err |-> ""]
    /\ child = NoChild
    /\ todo = [s \in OutStreams |-> <<>>]
    /\ pipe = [s \in OutStreams |-> <<>>]
    /\ handle = [s \in Streams |-> "none"]
    /\ ncalls = 0
    /\ calls = [s \in Streams |-> 0]
    /\ holders = [s \in Streams |-> 0]
    /\ got = [s \in OutStreams |-> <<>>]
    /\ wphase = "none"
    /\ wout = [status |-> None, stdout |-> None]
    /\ waitRead = {}
    /\ timer = "unset"
    /\ result = Pending
    /\ final = Pending
    /\ tw = [called |-> FALSE, ret |-> None, afterKills |-> 0]
    /\ kills = [afterExit |-> 0, ret |-> "none"]

(* --------------------------- configuration ----------------------------- *)
\* which::which: the name resolves only to an existing executable file
which(e) == e = "ok"

\* find_executable, as called by FFmpegBuilder::new and get_version
FindExecutable ==
    /\ pc = "start"
    /\ IF which(exe)
       THEN /\ pc' = "located"
            /\ UNCHANGED setupErr
       ELSE /\ pc' = "failed"
            /\ setupErr' = [op |-> "find_executable", err |-> "ExecutableNotFound"]
    /\ UNCHANGED <<envVars, mode, cfg, callback, child, todo, pipe, handle, got,
                   waitVars, callVars>>

\* FFmpegBuilder::with_executable / ProcessConfig::new on a caller's path
WithExecutable ==
    /\ pc = "start"
    /\ pc' = "located"
    /\ UNCHANGED <<envVars, mode, cfg, callback, setupErr, child, todo, pipe,
                   handle, got, waitVars, callVars>>

\* ProcessConfig::new followed by the setters
ProcessConfig_new(cs, ce, pi, t) ==
    [capture_stdout |-> cs, capture_stderr |-> ce, pipe_stdin |-> pi, timeout |-> t]

ConfigDirect ==
    /\ pc = "located"
    /\ \E cs \in BOOLEAN, ce \in BOOLEAN, pi \in BOOLEAN,
          t \in {None} \cup {Some(x) : x \in Timeouts} :
            cfg' = ProcessConfig_new(cs, ce, pi, t)
    /\ mode' = "direct"
    /\ pc' = "configured"
    /\ UNCHANGED <<envVars, callback, setupErr, child, todo, pipe,
                   handle, got, waitVars, callVars>>

\* the descriptor FFmpegBuilder::run builds
ConfigRun ==
    /\ pc = "located"
    /\ \E cb \in BOOLEAN, t \in {None} \cup {Some(x) : x \in Timeouts} :
        /\ cfg' = ProcessConfig_new(TRUE, TRUE, FALSE, t)
        /\ callback' = cb
    /\ mode' = "run"
    /\ pc' = "configured"
    /\ UNCHANGED <<envVars, setupErr, child, todo, pipe, handle, got,
                   waitVars, callVars>>

(* ------------------------------ spawn ---------------------------------- *)
\* variant: every stream is wired to a pipe
Stdio_piped(flag) == "owned"
\* Stdio::piped() or Stdio::null() for one stream
Stdio(flag) == IF flag THEN "owned" ELSE "none"

\* variant: the child is not configured to die with its handle
kill_on_drop_off == FALSE
\* cmd.kill_on_drop(true)
kill_on_drop == TRUE

\* the error kind Process::spawn reports when cmd.spawn() fails
SpawnError(e) == "Io"

Spawn ==
    /\ pc = "configured"
    /\ IF exe = "ok"
       THEN /\ child' = [NoChild EXCEPT !.state = "running"]
            /\ handle' = [s \in Streams |->
                            CASE s = "stdin"  -> Stdio(cfg.pipe_stdin)
                              [] s = "stdout" -> Stdio(cfg.capture_stdout)
                              [] s = "stderr" -> Stdio(cfg.capture_stderr)]
            /\ todo' = [stdout |-> prog.out, stderr |-> prog.err]
            /\ pc' = "spawned"
            /\ UNCHANGED setupErr
       ELSE /\ setupErr' = [op |-> "spawn", err |-> SpawnError(exe)]
            /\ pc' = "failed"
            /\ UNCHANGED <<child, handle, todo>>
    /\ UNCHANGED <<envVars, mode, cfg, callback, pipe, got, waitVars, callVars>>

(* ------------------------- the child process --------------------------- *)
\* the stream was wired to a pipe by spawn
Piped(s) == IF s = "stdout" THEN cfg.capture_stdout ELSE cfg.capture_stderr

\* the child writes one byte; a write to a full pipe blocks, a write to the
\* null device is discarded
ChildWrite(s) ==
    /\ child.state = "running"
    /\ todo[s] # <<>>
    /\ Piped(s) => Len(pipe[s]) < PipeCap
    /\ todo' = [todo EXCEPT ![s] = Tail(@)]
    /\ pipe' = IF Piped(s) THEN [pipe EXCEPT ![s] = Append(@, Head(todo[s]))] ELSE pipe
    /\ UNCHANGED <<envVars, pc, setupVars, child, handle, got, waitVars, callVars>>

\* the child has written everything and exits with its code
ChildExit ==
    /\ child.state = "running"
    /\ \A s \in OutStreams : todo[s] = <<>>
    /\ child' = [child EXCEPT !.state = "exited",
                              !.status = Some(ExitCode(prog.code)),
                              !.first = Some(ExitCode(prog.code))]
    /\ UNCHANGED <<envVars, pc, setupVars, todo, pipe, handle, got, waitVars, callVars>>

\* the child cannot make a step: every write it has left is to a full pipe
Blocked ==
    /\ child.state = "running"
    /\ \E s \in OutStreams : todo[s] # <<>>
    /\ \A s \in OutStreams : todo[s] # <<>> => (Piped(s) /\ Len(pipe[s]) >= PipeCap)

\* SIGKILL: a running process dies by the signal, an exited one keeps its status
SigKill(c) ==
    IF c.state = "running"
    THEN [c EXCEPT !.state = "exited", !.status = Some(Killed), !.first = Some(Killed)]
    ELSE c

\* whoever holds a taken stdout/stderr handle (stream_progress in run) reads a byte
ConsumerRead(s) ==
    /\ holders[s] > 0
    /\ pipe[s] # <<>>
    /\ got' = [got EXCEPT ![s] = Append(@, Head(pipe[s]))]
    /\ pipe' = [pipe EXCEPT ![s] = Tail(@)]
    /\ UNCHANGED <<envVars, pc, setupVars, child, todo, handle, waitVars, callVars>>

(* ------------------------- Process operations -------------------------- *)
\* variant: the accessor hands out the handle and keeps it
take_keep(h) == h
\* Option::take on a stream handle: what is left in the Process
take(h) == "none"

\* Process::stdin / stdout / stderr
Take(s) ==
    /\ pc = "spawned"
    /\ mode = "direct"
    /\ ncalls < MaxCalls
    /\ ncalls' = ncalls + 1
    /\ calls' = [calls EXCEPT ![s] = @ + 1]
    /\ IF handle[s] = "owned"
       THEN /\ holders' = [holders EXCEPT ![s] = @ + 1]
            /\ handle' = [handle EXCEPT ![s] = take(@)]
       ELSE UNCHANGED <<holders, handle>>
    /\ UNCHANGED <<envVars, pc, setupVars, child, todo, pipe, got, waitVars, tw, kills>>

\* variant: kill records a kill status whatever the child's state
kill_overwrite(c) == [c EXCEPT !.state = "exited", !.status = Some(Killed),
                               !.reaped = TRUE]
\* the child after Child::kill: start_kill, then wait reaps it
kill(c) == [SigKill(c) EXCEPT !.reaped = TRUE]

\* Process::kill.  On a child that was already reaped the runtime reports
\* either success or an invalid-input io::Error, depending on its version.
Kill ==
    /\ pc = "spawned"
    /\ mode = "direct"
    /\ ncalls < MaxCalls
    /\ ncalls' = ncalls + 1
    /\ \E r \in (IF child.reaped THEN {"Ok", "Io"} ELSE {"Ok"}) :
         kills' = [afterExit |-> IF child.state = "exited"
                                 THEN kills.afterExit + 1 ELSE kills.afterExit,
                   ret |-> r]
    /\ child' = kill(child)
    /\ UNCHANGED <<envVars, pc, setupVars, todo, pipe, handle, got, waitVars,
                   calls, holders, tw>>

\* variant: the poll never sees an exit
try_wait_blind(c) == None
\* Child::try_wait: None while the child runs, its status once it has exited
try_wait(c) == IF c.state = "exited" THEN c.status ELSE None

\* Process::try_wait
TryWait ==
    /\ pc = "spawned"
    /\ mode = "direct"
    /\ ncalls < MaxCalls
    /\ ncalls' = ncalls + 1
    /\ tw' = [called |-> TRUE,
              ret |-> try_wait(child),
              afterKills |-> kills.afterExit]
    /\ child' = IF child.state = "exited" THEN [child EXCEPT !.reaped = TRUE] ELSE child
    /\ UNCHANGED <<envVars, pc, setupVars, todo, pipe, handle, got, waitVars,
                   calls, holders, kills>>

\* the Child inside a Process is dropped
drop(c) == IF kill_on_drop THEN SigKill(c) ELSE c

\* the caller discards the Process without wait or kill
DropProcess ==
    /\ pc = "spawned"
    /\ mode = "direct"
    /\ pc' = "dropped"
    /\ child' = drop(child)
    /\ handle' = [s \in Streams |-> "none"]
    /\ UNCHANGED <<envVars, setupVars, todo, pipe, got, waitVars, callVars>>

(* ---------------------------- Process::wait ---------------------------- *)
\* ProcessOutput::success
success(o) == o.status = Some(ExitCode(0))

\* ProcessOutput::stderr_str
stderr_str(o) == IF o.stderr = None THEN None ELSE Some(from_utf8_lossy(o.stderr[1]))

\* variant: the failure drops the captured stderr
into_result_nostderr(o) == IF success(o) THEN o ELSE ErrProcessFailed(o.status, None)
\* ProcessOutput::into_result
into_result(o) == IF success(o) THEN o ELSE ErrProcessFailed(o.status, stderr_str(o))

\* what the caller of FFmpegBuilder::run gets from `process.wait().await?.into_result()`
Chain(r) == IF mode = "run"
            THEN (IF r.kind = "Ok" THEN into_result(r) ELSE r)
            ELSE Pending

\* variant: the wait is raced against a timer whatever the descriptor says
arm_always(t) == "armed"
\* `if let Some(timeout_duration) = self.config.timeout`: the wait is wrapped
\* in timeout() only when a timeout is configured
arm(t) == IF t # None THEN "armed" ELSE "unset"

\* wait(self) is entered: the timeout future is armed when a timeout is
\* configured
EnterWait(h) ==
    /\ pc' = "waiting"
    /\ wphase' = "exit"
    /\ timer' = arm(cfg.timeout)
    /\ handle' = h

\* Process::wait called on a Process
WaitBegin ==
    /\ pc = "spawned"
    /\ mode = "direct"
    /\ EnterWait(handle)
    /\ UNCHANGED <<envVars, setupVars, child, todo, pipe, got, wout, waitRead,
                   result, final, callVars>>

\* FFmpegBuilder::run after spawn: stderr goes to stream_progress when a
\* callback is set, then Process::wait is called
RunWait ==
    /\ pc = "spawned"
    /\ mode = "run"
    /\ IF callback /\ handle["stderr"] = "owned"
       THEN /\ holders' = [holders EXCEPT !["stderr"] = @ + 1]
            /\ calls' = [calls EXCEPT !["stderr"] = @ + 1]
            /\ EnterWait([handle EXCEPT !["stderr"] = take(@)])
       ELSE /\ UNCHANGED <<holders, calls>>
            /\ EnterWait(handle)
    /\ UNCHANGED <<envVars, setupVars, child, todo, pipe, got, wout, waitRead,
                   result, final, ncalls, tw, kills>>

\* self.child.wait().await completes once the child has exited
WaitExit ==
    /\ pc = "waiting"
    /\ wphase = "exit"
    /\ child.state = "exited"
    /\ wout' = [wout EXCEPT !.status = child.status]
    /\ child' = [child EXCEPT !.reaped = TRUE]
    /\ wphase' = "stdout"
    /\ UNCHANGED <<envVars, pc, setupVars, todo, pipe, handle, got, waitRead,
                   timer, result, final, callVars>>

\* wait reads a stream iff capture was configured and the handle is still there
Reads(s) == Piped(s) /\ handle[s] = "owned"

\* the stdout part of wait_future: read_to_end on the taken handle
WaitReadStdout ==
    /\ pc = "waiting"
    /\ wphase = "stdout"
    /\ IF Reads("stdout")
       THEN /\ wout' = [wout EXCEPT !.stdout = Some(pipe["stdout"])]
            /\ pipe' = [pipe EXCEPT !["stdout"] = <<>>]
            /\ handle' = [handle EXCEPT !["stdout"] = take(@)]
            /\ waitRead' = waitRead \cup {"stdout"}
       ELSE /\ wout' = [wout EXCEPT !.stdout = None]
            /\ UNCHANGED <<pipe, handle, waitRead>>
    /\ wphase' = "stderr"
    /\ UNCHANGED <<envVars, pc, setupVars, child, todo, got, timer, result,
                   final, callVars>>

\* the Process is consumed by wait: its Child and remaining handles are dropped
Consume ==
    /\ pc' = "returned"
    /\ wphase' = "done"

\* the stderr part of wait_future, and the ProcessOutput it builds
WaitReadStderr ==
    /\ pc = "waiting"
    /\ wphase = "stderr"
    /\ LET er == IF Reads("stderr") THEN Some(pipe["stderr"]) ELSE None
           r == OkOutput(wout.status[1], wout.stdout, er)
       IN /\ result' = r
          /\ final' = Chain(r)
    /\ IF Reads("stderr")
       THEN /\ pipe' = [pipe EXCEPT !["stderr"] = <<>>]
            /\ waitRead' = waitRead \cup {"stderr"}
       ELSE UNCHANGED <<pipe, waitRead>>
    /\ handle' = [s \in Streams |-> "none"]
    /\ child' = drop(child)
    /\ timer' = IF timer = "armed" THEN "cancelled" ELSE timer
    /\ Consume
    /\ UNCHANGED <<envVars, setupVars, todo, got, wout, callVars>>

\* the timeout elapses before wait_future has completed: kill, Err(Timeout).
\* timeout() polls wait_future before the timer, so an exit that has already
\* happened is seen first; a read of captured output can still be pending.
WaitTimeout ==
    /\ pc = "waiting"
    /\ \/ wphase = "exit" /\ child.state = "running"
       \/ wphase = "stdout" /\ (Reads("stdout") \/ Reads("stderr"))
       \/ wphase = "stderr" /\ Reads("stderr")
    /\ timer = "armed"
    /\ timer' = IF child.state = "running" THEN "fired_running" ELSE "fired_exited"
    /\ child' = drop(kill(child))
    /\ result' = ErrTimeout(cfg.timeout[1])
    /\ final' = Chain(result')
    /\ handle' = [s \in Streams |-> "none"]
    /\ Consume
    /\ UNCHANGED <<envVars, setupVars, todo, pipe, got, wout, waitRead, callVars>>

\* an io::Error from child.wait() or read_to_end is returned by `?`
WaitIoError ==
    /\ pc = "waiting"
    /\ \/ wphase = "exit"
       \/ wphase = "stdout" /\ Reads("stdout")
       \/ wphase = "stderr" /\ Reads("stderr")
    /\ result' = ErrIo
    /\ final' = Chain(result')
    /\ child' = drop(child)
    /\ handle' = [s \in Streams |-> "none"]
    /\ timer' = IF timer = "armed" THEN "cancelled" ELSE timer
    /\ Consume
    /\ UNCHANGED <<envVars, setupVars, todo, pipe, got, wout, waitRead, callVars>>

\* the caller converts the outcome with ProcessOutput::into_result
IntoResult ==
    /\ pc = "returned"
    /\ mode = "direct"
    /\ result.kind = "Ok"
    /\ final = Pending
    /\ final' = into_result(result)
    /\ UNCHANGED <<envVars, pc, setupVars, child, todo, pipe, handle, got,
                   wphase, wout, waitRead, timer, result, callVars>>

(* ------------------------- stream_progress ----------------------------- *)
\* one turn of the loop of stream_progress: next_line() gives Ok(Some(line)),
\* or Err for a line that is not UTF-8, which ends the `while let`
NextLine ==
    /\ task = "stream" /\ reader = "reading" /\ pos < Len(lines)
    /\ LET line == lines[pos + 1]
           r == parse_line(line)
       IN /\ pos' = pos + 1
          /\ IF ~ valid_utf8(line)
             THEN /\ reader' = "returned"
                  /\ outcomes' = Append(outcomes, <<"Err">>)
                  /\ sunk' = sunk
             ELSE /\ reader' = IF r[1] = "Panic" THEN "panicked" ELSE "reading"
                  /\ outcomes' = Append(outcomes, r)
                  /\ sunk' = IF r[1] = "Some" THEN Append(sunk, <<pos + 1, r[2]>>)
                             ELSE sunk
    /\ UNCHANGED <<processVars, toolVars, task, lines, cbVars, merge>>

\* next_line() gives Ok(None): the stream is at its end
EndOfStream ==
    /\ task = "stream" /\ reader = "reading" /\ pos = Len(lines)
    /\ reader' = "returned"
    /\ UNCHANGED <<processVars, toolVars, task, lines, pos, outcomes, sunk, cbVars, merge>>

(* --------------------------- CommandBuilder ---------------------------- *)
Tokens == {"-y", "in.mp4"}
TokenLists == UNION {[1..n -> Tokens] : n \in 0..MaxItems}

flag(a, f) == Append(a, f)
option(a, key, value) == Append(Append(a, key), value)
\* variant: the key is pushed even without a value
option_if_some_key(a, key, value) ==
    IF value # None THEN option(a, key, value[1]) ELSE Append(a, key)
option_if_some(a, key, value) ==
    IF value # None THEN option(a, key, value[1]) ELSE a
flag_if(a, f, condition) == IF condition THEN flag(a, f) ELSE a
RECURSIVE args(_, _)
args(a, l) == IF l = <<>> THEN a ELSE args(Append(a, Head(l)), Tail(l))
arg(a, x) == Append(a, x)
build(a) == a

\* a call on a CommandBuilder that has not been built, within the budget
CanCall == task = "builder" /\ cbBuilt = None /\ Len(cbLog) < MaxBuild
Called(c) == /\ cbLog' = Append(cbLog, c)
             /\ UNCHANGED <<processVars, toolVars, task, textVars, cbBuilt, merge>>

Flag ==
    \E f \in Tokens :
        CanCall /\ cbArgs' = flag(cbArgs, f) /\ Called(<<"flag", f>>)
Option ==
    \E k \in Tokens, v \in Tokens :
        CanCall /\ cbArgs' = option(cbArgs, k, v) /\ Called(<<"option", k, v>>)
OptionIfSome ==
    \E k \in Tokens, v \in {None} \cup {Some(t) : t \in Tokens} :
        CanCall /\ cbArgs' = option_if_some(cbArgs, k, v)
                /\ Called(<<"option_if_some", k, v>>)
FlagIf ==
    \E f \in Tokens, c \in BOOLEAN :
        CanCall /\ cbArgs' = flag_if(cbArgs, f, c) /\ Called(<<"flag_if", f, c>>)
Args ==
    \E l \in TokenLists :
        CanCall /\ cbArgs' = args(cbArgs, l) /\ Called(<<"args", l>>)
Arg ==
    \E x \in Tokens :
        CanCall /\ cbArgs' = arg(cbArgs, x) /\ Called(<<"arg", x>>)
Build ==
    /\ task = "builder" /\ cbBuilt = None
    /\ cbBuilt' = Some(build(cbArgs))
    /\ UNCHANGED <<processVars, toolVars, task, textVars, cbArgs, cbLog, merge>>

(* ------------------------------ merge_args ----------------------------- *)
value_flags == {"-i", "-f", "-c", "-codec", "-vf", "-af", "-s", "-r", "-b",
                "-aspect", "-t", "-ss", "-to", "-fs", "-preset", "-crf", "-qp",
                "-profile", "-level", "-pix_fmt", "-ar", "-ac", "-ab", "-map",
                "-metadata", "-filter_complex"}

\* the `while i < overrides.len()` loop, i counted from 0 as in the source
RECURSIVE merge_loop(_, _, _, _)
merge_loop(merged, seen_flags, overrides, i) ==
    IF i >= Len(overrides) THEN merged
    ELSE LET f == overrides[i + 1]
         IN IF f \in value_flags /\ i + 1 < Len(overrides)
            THEN IF f \notin seen_flags
                 THEN merge_loop(merged \o <<f, overrides[i + 2]>>,
                                 seen_flags \cup {f}, overrides, i + 2)
                 ELSE merge_loop(merged, seen_flags, overrides, i + 2)
            ELSE IF f \notin seen_flags
                 THEN merge_loop(Append(merged, f), seen_flags \cup {f}, overrides, i + 1)
                 ELSE merge_loop(merged, seen_flags, overrides, i + 1)

merge_args(base, overrides) == merge_loop(base, {}, overrides, 0)

MergeArgs ==
    /\ task = "merge" /\ merge.result = None
    /\ merge' = [merge EXCEPT !.result = Some(merge_args(merge.base, merge.overrides))]
    /\ UNCHANGED <<processVars, toolVars, task, textVars, cbVars>>

(* ---------------------------- FFmpegBuilder ---------------------------- *)
helperVars == <<textVars, cbVars, merge>>

\* a builder call can still be made
CanSetup == /\ task = "ffmpeg" /\ fbRet.op = "none"
            /\ Len(fb.inputs) + Len(fb.outputs) + Len(fbLog) < MaxSetup

\* FFmpegBuilder::input_path
InputPath ==
    /\ CanSetup
    /\ fb' = [fb EXCEPT !.inputs = Append(@, "input.mp4")]
    /\ UNCHANGED <<processVars, task, helperVars, fbLog, fbRet, probeVars, ver, dur>>

\* FFmpegBuilder::output_path
OutputPath ==
    /\ CanSetup
    /\ fb' = [fb EXCEPT !.outputs = Append(@, "output.mp4")]
    /\ UNCHANGED <<processVars, task, helperVars, fbLog, fbRet, probeVars, ver, dur>>

\* variant: the opposite flag is left as it was
overwrite_only(b) == [b EXCEPT !.overwrite = TRUE]
\* FFmpegBuilder::overwrite
overwrite(b) == [b EXCEPT !.overwrite = TRUE, !.no_overwrite = FALSE]
\* FFmpegBuilder::no_overwrite
no_overwrite(b) == [b EXCEPT !.no_overwrite = TRUE, !.overwrite = FALSE]

Overwrite ==
    /\ CanSetup
    /\ fb' = overwrite(fb)
    /\ fbLog' = Append(fbLog, "overwrite")
    /\ UNCHANGED <<processVars, task, helperVars, fbRet, probeVars, ver, dur>>

NoOverwrite ==
    /\ CanSetup
    /\ fb' = no_overwrite(fb)
    /\ fbLog' = Append(fbLog, "no_overwrite")
    /\ UNCHANGED <<processVars, task, helperVars, fbRet, probeVars, ver, dur>>

\* variant: a builder without outputs passes
validate_inputs_only(b) ==
    IF b.inputs = <<>> THEN <<"Err", "InvalidArgument">> ELSE <<"Ok">>
\* FFmpegBuilder::validate
validate(b) ==
    IF b.inputs = <<>> THEN <<"Err", "InvalidArgument">>
    ELSE IF b.outputs = <<>> THEN <<"Err", "InvalidArgument">>
    ELSE <<"Ok">>

\* Input::build_args / Output::build_args of Input::new(path), Output::new(path)
RECURSIVE input_args(_)
input_args(ins) == IF ins = <<>> THEN <<>>
                   ELSE <<"-i", Head(ins)>> \o input_args(Tail(ins))

\* FFmpegBuilder::build_args of a builder whose other options are unset
build_args(b) ==
    IF validate(b)[1] = "Err" THEN validate(b)
    ELSE <<"Ok", args(args(flag_if(flag_if(<<>>, "-y", b.overwrite),
                                   "-n", ~ b.overwrite /\ b.no_overwrite),
                           input_args(b.inputs)),
                      b.outputs)>>

\* FFmpegBuilder::command
command(b) ==
    IF build_args(b)[1] = "Err" THEN build_args(b)
    ELSE <<"Ok", <<"ffmpeg">> \o build_args(b)[2]>>

\* the builder has not been used yet
Unused == task = "ffmpeg" /\ fbRet.op = "none"

BuildArgs ==
    /\ Unused
    /\ fbRet' = [op |-> "build_args", ret |-> build_args(fb), spawned |-> FALSE]
    /\ UNCHANGED <<processVars, task, helperVars, fb, fbLog, probeVars, ver, dur>>

Command ==
    /\ Unused
    /\ fbRet' = [op |-> "command", ret |-> command(fb), spawned |-> FALSE]
    /\ UNCHANGED <<processVars, task, helperVars, fb, fbLog, probeVars, ver, dur>>

\* `let args = self.build_args()?;` of run and of spawn: an Err is returned
\* before Process::spawn is reached
before_spawn(b) == IF build_args(b)[1] = "Err" THEN build_args(b) ELSE <<"Spawn">>

\* FFmpegBuilder::run up to Process::spawn
FFmpegRun ==
    /\ Unused
    /\ fbRet' = [op |-> "run", ret |-> before_spawn(fb),
                 spawned |-> before_spawn(fb) = <<"Spawn">>]
    /\ UNCHANGED <<processVars, task, helperVars, fb, fbLog, probeVars, ver, dur>>

\* FFmpegBuilder::spawn up to Process::spawn
FFmpegSpawn ==
    /\ Unused
    /\ fbRet' = [op |-> "spawn", ret |-> before_spawn(fb),
                 spawned |-> before_spawn(fb) = <<"Spawn">>]
    /\ UNCHANGED <<processVars, task, helperVars, fb, fbLog, probeVars, ver, dur>>

(* ---------------------------- FFprobeBuilder --------------------------- *)
ProbeSections == {"format", "streams", "packets", "frames", "programs",
                  "chapters", "error"}

\* ProbeSection::as_str
as_str(section) == section

\* format!("-show_{}", section.as_str())
show_flag(section) ==
    CASE as_str(section) = "format" -> "-show_format"
      [] as_str(section) = "streams" -> "-show_streams"
      [] as_str(section) = "packets" -> "-show_packets"
      [] as_str(section) = "frames" -> "-show_frames"
      [] as_str(section) = "programs" -> "-show_programs"
      [] as_str(section) = "chapters" -> "-show_chapters"
      [] as_str(section) = "error" -> "-show_error"

\* Vec::contains
InSeq(q, x) == \E i \in 1..Len(q) : q[i] = x

\* variant: the section is pushed on every call
show_again(b, section) == [b EXCEPT !.show_sections = Append(@, section)]
\* FFprobeBuilder::show_format .. show_error
show(b, section) ==
    IF ~ InSeq(b.show_sections, section)
    THEN [b EXCEPT !.show_sections = Append(@, section)]
    ELSE b

Show ==
    /\ task = "ffprobe" /\ probeRet = None /\ Len(probeLog) < MaxShow
    /\ \E section \in ProbeSections :
          /\ probe' = show(probe, section)
          /\ probeLog' = Append(probeLog, section)
    /\ UNCHANGED <<processVars, task, helperVars, fbVars, probeRet, ver, dur>>

\* FFprobeBuilder::input
ProbeInput ==
    /\ task = "ffprobe" /\ probeRet = None /\ probe.input = None
    /\ probe' = [probe EXCEPT !.input = Some("input.mp4")]
    /\ UNCHANGED <<processVars, task, helperVars, fbVars, probeLog, probeRet, ver, dur>>

RECURSIVE show_flags(_)
show_flags(sections) ==
    IF sections = <<>> THEN <<>>
    ELSE <<show_flag(Head(sections))>> \o show_flags(Tail(sections))

\* FFprobeBuilder::build_args of a builder whose other options are unset
probe_build_args(b) ==
    IF b.input = None THEN <<"Err", "InvalidArgument">>
    ELSE <<"Ok", arg(args(option(<<>>, "-print_format", "json"),
                          show_flags(b.show_sections)),
                     b.input[1])>>

ProbeBuildArgs ==
    /\ task = "ffprobe" /\ probeRet = None
    /\ probeRet' = Some(probe_build_args(probe))
    /\ UNCHANGED <<processVars, task, helperVars, fbVars, probe, probeLog, ver, dur>>

(* ------------------------------- Version ------------------------------- *)
\* variant: an equal patch level does not count
is_at_least_strict(self, major, minor, patch) ==
    IF self[1] > major THEN TRUE
    ELSE IF self[1] < major THEN FALSE
    ELSE IF self[2] > minor THEN TRUE
    ELSE IF self[2] < minor THEN FALSE
    ELSE self[3] > patch
\* Version::is_at_least; self is <<major, minor, patch>>
is_at_least(self, major, minor, patch) ==
    IF self[1] > major THEN TRUE
    ELSE IF self[1] < major THEN FALSE
    ELSE IF self[2] > minor THEN TRUE
    ELSE IF self[2] < minor THEN FALSE
    ELSE self[3] >= patch

IsAtLeast ==
    /\ task = "version" /\ ver.ret = None
    /\ ver' = [ver EXCEPT !.ret = Some(is_at_least(ver.self, ver.query[1],
                                                   ver.query[2], ver.query[3]))]
    /\ UNCHANGED <<processVars, task, helperVars, fbVars, probeVars, dur>>

(* ------------------------------- Duration ------------------------------ *)
\* format!("{:0w$}", n)
Pad(n, w) == IF Len(ToDigits(n)) >= w THEN ToDigits(n)
             ELSE [i \in 1..(w - Len(ToDigits(n))) |-> "0"] \o ToDigits(n)

\* hours, minutes and seconds of to_ffmpeg_format
clock(total_secs) ==
    Pad(total_secs \div 3600, 2) \o <<":">> \o Pad((total_secs % 3600) \div 60, 2)
        \o <<":">> \o Pad(total_secs % 60, 2)

\* variant: the fraction is never written
to_ffmpeg_format_whole(d) == clock(d \div 1000)
\* Duration::to_ffmpeg_format of a duration of d milliseconds
to_ffmpeg_format(d) ==
    IF d % 1000 > 0 THEN clock(d \div 1000) \o <<".">> \o Pad(d % 1000, 3)
    ELSE clock(d \div 1000)

ToFFmpegFormat ==
    /\ task = "duration" /\ dur.stage = "value"
    /\ dur' = [dur EXCEPT !.text = to_ffmpeg_format(dur.d[1]), !.stage = "text"]
    /\ UNCHANGED <<processVars, task, helperVars, fbVars, probeVars, ver>>

FromFFmpegFormat ==
    /\ task = "duration" /\ dur.stage = "text"
    /\ dur' = [dur EXCEPT !.parsed = Some(from_ffmpeg_format(dur.text)),
                          !.stage = "parsed"]
    /\ UNCHANGED <<processVars, task, helperVars, fbVars, probeVars, ver>>

(* --------------------------- specification ----------------------------- *)
\* every step except a failure injected by the OS
Step ==
    \/ FindExecutable
    \/ WithExecutable
    \/ ConfigDirect
    \/ ConfigRun
    \/ Spawn
    \/ \E s \in OutStreams : ChildWrite(s)
    \/ ChildExit
    \/ \E s \in OutStreams : ConsumerRead(s)
    \/ \E s \in Streams : Take(s)
    \/ Kill
    \/ TryWait
    \/ DropProcess
    \/ WaitBegin
    \/ RunWait
    \/ WaitExit
    \/ WaitReadStdout
    \/ WaitReadStderr
    \/ WaitTimeout
    \/ IntoResult

\* a step of one of the helpers that need no Process
HelperStep ==
    \/ NextLine
    \/ EndOfStream
    \/ Flag
    \/ Option
    \/ OptionIfSome
    \/ FlagIf
    \/ Args
    \/ Arg
    \/ Build
    \/ MergeArgs
    \/ InputPath
    \/ OutputPath
    \/ Overwrite
    \/ NoOverwrite
    \/ BuildArgs
    \/ Command
    \/ FFmpegRun
    \/ FFmpegSpawn
    \/ Show
    \/ ProbeInput
    \/ ProbeBuildArgs
    \/ IsAtLeast
    \/ ToFFmpegFormat
    \/ FromFFmpegFormat

Next ==
    \/ Step
    \/ WaitIoError
    \/ HelperStep

Spec == Init /\ [][Next]_vars

\* the runtime keeps polling ready tasks, the OS keeps running the child and
\* the timer eventually fires; an I/O failure is never bound to happen
FairSpec == Spec /\ WF_vars(Step)

(* ------------------------------ claims --------------------------------- *)
\* nobody but wait can drain the pipes the child is blocked on
Undrained == \A s \in OutStreams : todo[s] # <<>> => holders[s] = 0

\* C1: with stdout and stderr both captured and no timeout, no reachable
\* state has the child blocked writing to a full pipe while wait is blocked
\* waiting for the child to exit.
C1_NoPipeDeadlock ==
    ~ ( /\ cfg.capture_stdout /\ cfg.capture_stderr /\ cfg.timeout = None
        /\ pc = "waiting" /\ wphase = "exit"
        /\ Blocked /\ Undrained )

\* C2: when the timeout elapses on a running child, wait returns
\* Err(Timeout(d)) with d the configured timeout, never a ProcessOutput, and
\* the child is no longer alive when wait returns.
C2_TimeoutReportsAndKills ==
    timer = "fired_running" =>
        /\ result.kind = "Err" /\ result.err = "Timeout"
        /\ result.d = cfg.timeout
        /\ child.state = "exited"

C2_Witness ==
    /\ timer = "fired_running" /\ pc = "returned"
    /\ result.d = Some(MaxTimeout) /\ child.first = Some(Killed)

\* C3: whenever the child exits before the timeout elapses, wait returns a
\* ProcessOutput carrying the child's exit status and never Err(Timeout).
C3_ExitBeforeTimeoutWins ==
    timer = "fired_exited" => (result.kind = "Ok" /\ result.status = child.first)

\* C4: no reachable state has a running child whose Process handle no longer
\* exists (dropped by the caller, or consumed by a wait that returned).
C4_NoOrphan ==
    pc \in {"dropped", "returned"} => child.state # "running"

C4_Witness ==
    /\ pc = "dropped" /\ child.first = Some(Killed) /\ kills.ret = "none"
    /\ \E s \in OutStreams : todo[s] # <<>>

\* C5: in every ProcessOutput returned by wait, stdout is present iff
\* capture_stdout was set and stderr is present iff capture_stderr was set.
C5_CapturedIffRequested ==
    result.kind = "Ok" =>
        /\ (result.stdout # None) <=> cfg.capture_stdout
        /\ (result.stderr # None) <=> cfg.capture_stderr

\* C6: with capture_stdout set, a child that writes W to stdout and exits
\* with code 0 leads spawn-then-wait to return a successful ProcessOutput whose
\* stdout is exactly W (an I/O failure of the OS aside).
C6_StdoutReturnedExactly ==
    ( /\ pc = "waiting" /\ wphase = "exit" /\ cfg.timeout = None
      /\ cfg.capture_stdout /\ handle["stdout"] = "owned"
      /\ child.state = "running" /\ prog.code = 0 )
    ~> ( \/ /\ result.kind = "Ok" /\ result.status = Some(ExitCode(0))
            /\ result.stdout = Some(prog.out)
         \/ result.err = "Io" )

\* the text a lossy UTF-8 decoding of bytes b must give
IsLossyText(text, b) ==
    /\ Len(text) = Len(b)
    /\ \A i \in 1..Len(b) : text[i] = (IF b[i] < 128 THEN b[i] ELSE 65533)

\* C7: wait never fails because of the exit status (its errors are Io and
\* Timeout; an Ok outcome holds the child's status); into_result returns the
\* unchanged outcome on success and otherwise ProcessFailed with the
\* outcome's status and the lossy-decoded captured stderr.
C7_ExitStatusIsNotAWaitError ==
    /\ result.kind = "Err" => result.err \in {"Io", "Timeout"}
    /\ result.kind = "Ok" => result.status = child.first
    /\ (result.kind = "Ok" /\ final # Pending) =>
          IF result.status = Some(ExitCode(0))
          THEN final = result
          ELSE /\ final.kind = "Err" /\ final.err = "ProcessFailed"
               /\ final.status = result.status
               /\ (result.stderr = None) <=> (final.stderr = None)
               /\ result.stderr # None => IsLossyText(final.stderr[1], result.stderr[1])

C7_Witness ==
    /\ result.kind = "Ok" /\ result.status = Some(ExitCode(1))
    /\ final.err = "ProcessFailed" /\ final.stderr = Some(<<65533>>)

\* C8: when the executable cannot be located, spawn fails with
\* ExecutableNotFound (not with Io, the kind of a failure to execute), and
\* no OS process is created.
C8_NotFoundIsDistinct ==
    setupErr.op = "spawn" =>
        /\ child.state = "none"
        /\ exe = "missing" => setupErr.err = "ExecutableNotFound"
        /\ exe = "noexec" => setupErr.err = "Io"

C10_KillTwiceKeepsStatus ==
    /\ kills.ret \in {"none", "Ok", "Io"}
    /\ (tw.called /\ tw.afterKills >= 2) => (tw.ret # None /\ tw.ret = child.first)

C10_Witness ==
    /\ tw.called /\ tw.afterKills = 2 /\ tw.ret = Some(ExitCode(1))
    /\ kills.ret = "Io"

\* a step that is a call of try_wait
IsTryWait == ncalls' = ncalls + 1 /\ calls' = calls /\ kills' = kills

\* C11: try_wait returns None while the child runs and the child's exit
\* status once it has exited, the same on every call, and leaves the Process
\* with its caller; a wait made after try_wait saw the exit returns (an I/O
\* failure aside) a ProcessOutput with that status.
C11_TryWaitPollsOnly ==
    /\ [][IsTryWait =>
            /\ tw'.ret = (IF child.state = "running" THEN None ELSE child.first)
            /\ pc' = "spawned" /\ child'.state = child.state]_vars
    /\ []((tw.ret # None /\ pc = "returned" /\ result.err # "Io") =>
            (result.kind = "Ok" /\ result.status = tw.ret))

\* C17: stderr is never both captured for the final output and streamed to a
\* progress reader, and the stderr pipe never has two consumers.
C17_CaptureXorProgress ==
    /\ ~ (cfg.capture_stderr /\ callback /\ holders["stderr"] > 0)
    /\ ~ ("stderr" \in waitRead /\ holders["stderr"] > 0)

(* --------------------- claims on the progress reader ------------------- *)
FrameKey == <<"f", "r", "a", "m", "e", "=">>

\* the snapshot tests::test_progress_parsing expects of TestLine
TestProgress == [frame |-> Some(100), fps |-> Some(Float(25, 0)),
                 q |-> Some(Float(28, 0)), size |-> Some(1048576),
                 time |-> Some(4000), bitrate |-> Some(Float(2097200, 0)),
                 speed |-> Some(Float(1, 0))]

\* C12: a progress line in ffmpeg's padded layout decodes to frame 100,
\* fps 25.0, q 28.0, size 1,048,576 bytes, time 4 s, bitrate 2,097,200.0 and
\* speed 1.0.
C12_PaddedLineDecodes ==
    \A k \in 1..Len(outcomes) :
        lines[k] = TestLine => outcomes[k] = <<"Some", TestProgress>>

\* C13: parse_line returns None for a line without `frame=` and the sink is
\* not invoked for it; it returns Some snapshot for every line with `frame=`.
C13_SnapshotIffFrameKey ==
    /\ \A k \in 1..Len(outcomes) :
          valid_utf8(lines[k]) =>
              outcomes[k][1] = (IF contains(lines[k], FrameKey) THEN "Some" ELSE "None")
    /\ \A i \in 1..Len(sunk) : contains(lines[sunk[i][1]], FrameKey)

\* lines in which one recognized key has a value that cannot be parsed, and
\* the snapshot meant for each: that field absent, the others parsed
OneBadField == {BadFrameLine, BadTimeLine, NegTimeLine}
Intended(line) ==
    CASE line = BadFrameLine -> [NoProgress EXCEPT !.fps = Some(Float(25, 0))]
      [] line = BadTimeLine -> [NoProgress EXCEPT !.frame = Some(5),
                                                  !.speed = Some(Float(15, 1))]
      [] line = NegTimeLine -> [NoProgress EXCEPT !.frame = Some(1)]

\* C14: a line with `frame=` and one unparseable recognized field still gives
\* a snapshot, with that field absent, every other recognized field parsed and
\* unrecognized keys ignored.
C14_BadFieldLeftAbsent ==
    \A k \in 1..Len(outcomes) :
        lines[k] \in OneBadField => outcomes[k] = <<"Some", Intended(lines[k])>>

\* positions of the lines that decode as progress lines
ProgressIdx == {k \in 1..Len(lines) :
                   valid_utf8(lines[k]) /\ contains(lines[k], FrameKey)}

\* C15: no line stops the reader: stream_progress returns only at the end of
\* the stream, never fails, and by then the sink was invoked for every line
\* that decodes as a progress line.
C15_ReaderSurvivesAnyLine ==
    /\ reader # "panicked"
    /\ reader = "returned" =>
          /\ pos = Len(lines)
          /\ \A k \in ProgressIdx : \E i \in 1..Len(sunk) : sunk[i][1] = k

\* C16: the sink gets one snapshot per progress line, the k-th invocation
\* for the k-th progress line of the stream, and only for lines already read.
C16_SnapshotsInStreamOrder ==
    /\ \A i \in 1..Len(sunk) :
          /\ sunk[i][1] <= pos
          /\ Cardinality({k \in ProgressIdx : k <= sunk[i][1]}) = i
          /\ parse_line(lines[sunk[i][1]]) = <<"Some", sunk[i][2]>>
    /\ reader \in {"returned", "panicked"} => Len(sunk) = Cardinality(ProgressIdx)

Added(c) ==
    CASE c[1] \in {"flag", "arg"} -> <<c[2]>>
      [] c[1] = "option" -> <<c[2], c[3]>>
      [] c[1] = "args" -> c[2]
      [] c[1] = "option_if_some" -> IF c[3] = None THEN <<>> ELSE <<c[2], c[3][1]>>
      [] c[1] = "flag_if" -> IF c[3] THEN <<c[2]>> ELSE <<>>

RECURSIVE AllAdded(_)
AllAdded(log) == IF log = <<>> THEN <<>> ELSE Added(Head(log)) \o AllAdded(Tail(log))

IsPrefix(a, b) == Len(a) <= Len(b) /\ SubSeq(b, 1, Len(a)) = a

\* C19: the CommandBuilder holds, and build returns, exactly the tokens the
\* calls added, in call order; no call removes or reorders earlier tokens.
C19_BuildReturnsTokensInOrder ==
    /\ [](cbArgs = AllAdded(cbLog))
    /\ [](cbBuilt # None => cbBuilt = Some(AllAdded(cbLog)))
    /\ [][IsPrefix(cbArgs, cbArgs')]_vars

C19_Witness ==
    /\ cbBuilt # None
    /\ \E i \in 1..Len(cbLog) : cbLog[i][1] = "option_if_some" /\ cbLog[i][3] = None
    /\ \E j \in 1..Len(cbLog) : cbLog[j][1] = "flag_if" /\ cbLog[j][3] = FALSE

Occurs(l, f) == \E i \in 1..Len(l) : l[i] = f
Count(l, f) == Cardinality({i \in 1..Len(l) : l[i] = f})
ValueOf(l, f) == l[IndexOf(l, f) + 1]

\* C20: a value-taking flag in both base and overrides is in the result once,
\* with the value from overrides; a flag only in base keeps its base value.
C20_OverridesReplaceBase ==
    merge.result # None =>
        LET r == merge.result[1]
        IN \A f \in value_flags :
              /\ (Occurs(merge.base, f) /\ Occurs(merge.overrides, f)) =>
                    (Count(r, f) = 1 /\ ValueOf(r, f) = ValueOf(merge.overrides, f))
              /\ (Occurs(merge.base, f) /\ ~ Occurs(merge.overrides, f)) =>
                    (Count(r, f) = 1 /\ ValueOf(r, f) = ValueOf(merge.base, f))

(* ------------------- more claims on the Process handle ----------------- *)
\* the flag of the descriptor that a stream is meant to follow
FlagOf(s) == CASE s = "stdin" -> cfg.pipe_stdin
               [] s = "stdout" -> cfg.capture_stdout
               [] s = "stderr" -> cfg.capture_stderr

\* C23: spawn wires each stream from its own flag only: a freshly spawned
\* Process holds a handle for a stream iff its flag was set, the first call of
\* an accessor returns a handle iff the flag was set, and output the child
\* writes to a stream whose flag is off goes nowhere.
C23_StdioFollowsFlags ==
    /\ []((pc = "spawned" /\ ncalls = 0) =>
            \A s \in Streams : (handle[s] = "owned") <=> FlagOf(s))
    /\ [](\A s \in OutStreams : pipe[s] # <<>> => FlagOf(s))
    /\ [][\A s \in Streams :
            (calls[s] = 0 /\ calls'[s] = 1) =>
                ((holders'[s] = holders[s] + 1) <=> FlagOf(s))]_vars

C23_Witness ==
    /\ pc = "spawned"
    /\ cfg.pipe_stdin /\ calls["stdin"] = 1 /\ holders["stdin"] = 1
    /\ ~ cfg.capture_stdout /\ calls["stdout"] = 1 /\ holders["stdout"] = 0
    /\ cfg.capture_stderr /\ handle["stderr"] = "owned"

\* a step that is a call of kill
IsKill == ncalls' = ncalls + 1 /\ kills' # kills

\* C24: a kill of a running child that returns Ok leaves the child not
\* running; it never runs again, and every later try_wait returns its status.
C24_KillTerminates ==
    /\ [][(IsKill /\ child.state = "running" /\ kills'.ret = "Ok") =>
              child'.state = "exited"]_vars
    /\ [][child.state = "exited" => child'.state = "exited"]_vars
    /\ [][(IsTryWait /\ child.state = "exited") => tw'.ret # None]_vars

C24_Witness ==
    /\ kills.ret = "Ok" /\ child.first = Some(Killed)
    /\ tw.called /\ tw.ret = Some(Killed) /\ pc = "spawned"

\* the caller's kill is what ended the child
KilledByCaller == kills.ret # "none" /\ child.first = Some(Killed)

\* C26: a wait that follows a kill of a running child returns (an I/O failure
\* of the OS aside) Ok with a ProcessOutput whose success() is false.
C26_WaitAfterKillReturnsOutput ==
    (KilledByCaller /\ pc = "returned" /\ result.err # "Io") =>
        (result.kind = "Ok" /\ ~ success(result))

\* C27: without a timeout, wait is never raced against a timer, never returns
\* Err(Timeout), returns only Ok or Err(Io), and a child that stops running
\* during the wait has exited by itself, unless the wait fails with Err(Io)
\* and the Process is dropped.
C27_NoTimeoutNoKill ==
    /\ []((cfg.timeout = None /\ pc \in {"waiting", "returned"}) =>
            /\ timer = "unset"
            /\ result.err # "Timeout"
            /\ pc = "returned" => (result.kind = "Ok" \/ result.err = "Io"))
    /\ [][(cfg.timeout = None /\ pc = "waiting"
              /\ child.state = "running" /\ child'.state = "exited") =>
            (child'.status = Some(ExitCode(prog.code)) \/ result'.err = "Io")]_vars

C27_Witness ==
    /\ cfg.timeout = None /\ pc = "returned" /\ result.kind = "Ok"
    /\ result.status = Some(ExitCode(1)) /\ calls = [s \in Streams |-> 0]

(* ------------------------ claims on the builders ----------------------- *)
\* C21: an FFmpegBuilder without an input or without an output is rejected by
\* build_args, command, run and spawn with Err(InvalidArgument) and no child
\* process is created; with an input and an output build_args returns Ok.
C21_IncompleteBuilderRejected ==
    fbRet.op # "none" =>
        IF fb.inputs = <<>> \/ fb.outputs = <<>>
        THEN fbRet.ret = <<"Err", "InvalidArgument">> /\ ~ fbRet.spawned
        ELSE fbRet.ret[1] # "Err" /\ (fbRet.op = "build_args" => fbRet.ret[1] = "Ok")

C21_Witness ==
    /\ fbRet.op = "run" /\ fb.inputs # <<>> /\ fb.outputs = <<>>
    /\ fbRet.ret = <<"Err", "InvalidArgument">>

\* C22: is_at_least answers true iff the version is greater than or equal to
\* the queried triple in lexicographic order.
C22_IsAtLeastIsLexicographic ==
    ver.ret # None =>
        (ver.ret[1] <=>
            \/ ver.self[1] > ver.query[1]
            \/ ver.self[1] = ver.query[1] /\ ver.self[2] > ver.query[2]
            \/ /\ ver.self[1] = ver.query[1] /\ ver.self[2] = ver.query[2]
               /\ ver.self[3] >= ver.query[3])

C22_Witness ==
    ver.ret = Some(TRUE) /\ ver.self = <<1, 0, 0>> /\ ver.query = <<0, 2, 2>>

\* C25: the digits after the dot are a decimal fraction of a second whatever
\* their count: 00:00:04.5, 00:00:04.50 and 00:00:04.500 all parse to 4500 ms.
C25_FractionIsDecimal ==
    (dur.stage = "parsed" /\ dur.text \in {FracOne, FracTwo, FracThree}) =>
        dur.parsed = Some(<<"Ok", 4500>>)

\* C28: the overwrite and no_overwrite fields are never both true and the
\* last call wins: build_args emits -y iff the last call was overwrite(), -n
\* iff it was no_overwrite(), never both, and neither when none was called.
C28_LastOverwriteCallWins ==
    /\ ~ (fb.overwrite /\ fb.no_overwrite)
    /\ fb.overwrite <=> (fbLog # <<>> /\ fbLog[Len(fbLog)] = "overwrite")
    /\ fb.no_overwrite <=> (fbLog # <<>> /\ fbLog[Len(fbLog)] = "no_overwrite")
    /\ (fbRet.op = "build_args" /\ fbRet.ret[1] = "Ok") =>
          /\ Occurs(fbRet.ret[2], "-y") <=>
                (fbLog # <<>> /\ fbLog[Len(fbLog)] = "overwrite")
          /\ Occurs(fbRet.ret[2], "-n") <=>
                (fbLog # <<>> /\ fbLog[Len(fbLog)] = "no_overwrite")

C28_Witness ==
    /\ fbLog = <<"overwrite", "no_overwrite">>
    /\ fbRet.op = "build_args" /\ fbRet.ret[1] = "Ok"
    /\ Occurs(fbRet.ret[2], "-n")

\* C29: formatting a duration of a whole number of milliseconds and parsing
\* the text gives the duration back.
C29_DurationRoundTrip ==
    (dur.d # None /\ dur.stage = "parsed") => dur.parsed = Some(<<"Ok", dur.d[1]>>)

C29_Witness ==
    /\ dur.d = Some(360000005) /\ dur.stage = "parsed"
    /\ dur.parsed = Some(<<"Ok", 360000005>>)

\* the sections requested so far, each once, in order of first request
RECURSIVE FirstRequests(_)
FirstRequests(log) ==
    IF log = <<>> THEN <<>>
    ELSE LET before == FirstRequests(SubSeq(log, 1, Len(log) - 1))
         IN IF \E i \in 1..Len(before) : before[i] = log[Len(log)]
            THEN before ELSE Append(before, log[Len(log)])

\* C30: show_sections holds each requested section once, in order of first
\* request; build_args emits each -show_<section> flag at most once; a
\* repeated show_* call leaves the builder unchanged.
C30_SectionsShownOnce ==
    /\ [](probe.show_sections = FirstRequests(probeLog))
    /\ []((probeRet # None /\ probeRet[1][1] = "Ok") =>
            \A section \in ProbeSections :
                Count(probeRet[1][2], show_flag(section)) =
                    (IF \E i \in 1..Len(probeLog) : probeLog[i] = section THEN 1 ELSE 0))
    /\ [][(Len(probeLog') = Len(probeLog) + 1
             /\ \E i \in 1..Len(probeLog) : probeLog[i] = probeLog'[Len(probeLog')])
          => probe' = probe]_vars

C30_Witness ==
    /\ probeLog = <<"format", "streams", "format">>
    /\ probeRet # None /\ probeRet[1][1] = "Ok"
    /\ probe.show_sections = <<"format", "streams">>

====
